---- MODULE Spec2Model ----
(***************************************************************************)
(* A model of the CTSM site/regional helper BaseCase                       *)
(* (python/ctsm/site_and_regional/base_case.py) and of the job-script      *)
(* generator (tools/mksurfdata_esmf/gen_mksurfdata_jobscript_single.py).   *)
(*                                                                         *)
(* Text that the code indexes (file names, numeric arguments) is a         *)
(* sequence of one-character strings; text that the code only concatenates *)
(* (attribute values, the job script) is a string.                         *)
(***************************************************************************)
EXTENDS Integers, Sequences, FiniteSets, TLC

VARIABLES
    today,          \* the date date.today() returns: [year, month, day]
    \* ---- add_tag_to_filename
    first,          \* the file name the caller started from
    filename,       \* argument of the current / last call
    tag,            \* argument of the current / last call
    tag_pc,         \* "idle" | "ready" | "returned" | "aborted" | "raised"
    fname_out,      \* the returned name
    applied,        \* tags of the calls that returned, in call order
    \* ---- update_metadata
    attrs,          \* nc.attrs
    user,           \* what getuser() returns
    sha,            \* what get_git_short_hash() returns
    hist,           \* one record per completed update_metadata call
    \* ---- gen_mksurfdata_jobscript_single.main
    args,           \* parsed command line
    job_pc,         \* "idle" | "start" | "in_with" | "np_done" | "launch_written"
                    \* | "after_with" | "exited" | "raised"
    runfile,        \* text the output file holds
    runfile_state,  \* "unopened" | "open" | "closed"
    nwritten,       \* write() calls completed
    np,             \* total MPI ranks, once computed
    job_exc,        \* exception that left main, or "none"
    \* ---- create_1d_coord
    disk,           \* the netCDF file on disk: a dataset, or NoFile
    cargs,          \* lon_varname, lat_varname, x_dim, y_dim
    coord_pc,       \* "idle" | "start" | "returned" | "raised"
    f_in_state,     \* "unopened" | "open" | "closed"
    f_out,          \* the returned dataset
    coord_exc       \* exception that left create_1d_coord, or "none"

tagVars   == <<first, filename, tag, tag_pc, fname_out, applied>>
metaVars  == <<attrs, user, sha, hist>>
jobVars   == <<args, job_pc, runfile, runfile_state, nwritten, np, job_exc>>
coordVars == <<disk, cargs, coord_pc, f_in_state, f_out, coord_exc>>
vars      == <<today, tagVars, metaVars, jobVars, coordVars>>

(***************************************************************************)
(* Bounds of the model.                                                    *)
(***************************************************************************)
MaxHead == 3
MaxCalls == 2
MaxAttrs == 3
MaxRuns == 2
MaxDigits == 2
MaxN == 2

(***************************************************************************)
(* Text helpers.                                                           *)
(***************************************************************************)
DigitChars == <<"0", "1", "2", "3", "4", "5", "6", "7", "8", "9">>

IsDigit(ch) == \E i \in 1..10 : DigitChars[i] = ch

DigitValue(ch) == (CHOOSE i \in 1..10 : DigitChars[i] = ch) - 1

RECURSIVE Str(_)
Str(s) == IF s = <<>> THEN "" ELSE s[1] \o Str(Tail(s))

SeqsUpTo(S, n) == UNION {[1..k -> S] : k \in 0..n}

\* "%02d" of a number below 100
TwoDigits(n) == <<DigitChars[((n \div 10) % 10) + 1], DigitChars[(n % 10) + 1]>>

\* "%04d" of a number below 10000
FourDigits(n) == TwoDigits(n \div 100) \o TwoDigits(n % 100)

\* today.strftime("%y%m%d")
strftime_ymd(d) == TwoDigits(d.year % 100) \o TwoDigits(d.month) \o TwoDigits(d.day)

\* today.strftime("%Y-%m-%d")
strftime_Ymd(d) ==
    Str(FourDigits(d.year) \o <<"-">> \o TwoDigits(d.month) \o <<"-">> \o TwoDigits(d.day))

\* the days the model's clock runs through, in order
Days == << [year |-> 2026, month |-> 11, day |-> 3],
           [year |-> 2027, month |-> 1, day |-> 12] >>

DayIndex(d) == CHOOSE i \in 1..Len(Days) : Days[i] = d

(***************************************************************************)
(* add_tag_to_filename                                                     *)
(***************************************************************************)
\* os.path.basename: what follows the last "/"
basename(f) ==
    LET slashes == {i \in 1..Len(f) : f[i] = "/"}
        last == IF slashes = {} THEN 0 ELSE CHOOSE i \in slashes : \A j \in slashes : j <= i
    IN SubSeq(f, last + 1, Len(f))

\* s[i] for a negative Python index i; an IndexError when PyInRange is false
PyInRange(s, i) == -i <= Len(s)

PyAt(s, i) == s[Len(s) + i + 1]

cend0 == -10

\* faulty variant: the "c" before the date code does not move the boundary
cend_NoShift(b) == cend0

\* cend after line 154; b has a character at cend0
cend(b) == IF PyAt(b, cend0) = "c" THEN cend0 - 1 ELSE cend0

\* faulty variant: the new name ends in "_<date>.nc", without the "c"
fname_NoC(b, ce, tg, d) ==
    SubSeq(b, 1, Len(b) + ce) \o <<"_">> \o tg \o <<"_">> \o strftime_ymd(d) \o <<".", "n", "c">>

\* line 162: basename[:cend] + "_" + tag + "_c" + today_string + ".nc"
fname(b, ce, tg, d) ==
    SubSeq(b, 1, Len(b) + ce) \o <<"_">> \o tg \o <<"_", "c">> \o strftime_ymd(d)
        \o <<".", "n", "c">>

\* The outcome of one call: a returned name, os.abort(), or the IndexError
\* of basename[cend] on a base name that has no such character.
add_tag_to_filename(fn, tg, d) ==
    LET b == basename(fn) IN
    IF ~PyInRange(b, cend0) THEN [kind |-> "raised", name |-> <<>>]
    ELSE LET ce == cend(b) IN
         IF ~PyInRange(b, ce) THEN [kind |-> "raised", name |-> <<>>]
         ELSE IF PyAt(b, ce) # "." /\ PyAt(b, ce) # "_"
              THEN [kind |-> "aborted", name |-> <<>>]
              ELSE [kind |-> "returned", name |-> fname(b, ce, tg, d)]

HeadChars == {"a", "c", ".", "_", "/"}

Tails == { <<"2", "1", "0", "1", "0", "1", ".", "n", "c">>,
           <<"c", "9", "9", "1", "2", "3", "1", ".", "n", "c">>,
           <<"2", "1", "0", "1", ".", "n", "c">>,
           <<".", "n", "c">>,
           <<>> }

Filenames == {h \o t : h \in SeqsUpTo(HeadChars, MaxHead), t \in Tails}

Tags == { <<"h">>, <<"v", "2">>, <<"a", "/", "b">> }

TagIdle ==
    /\ first = <<>> /\ filename = <<>> /\ tag = <<>> /\ tag_pc = "idle"
    /\ fname_out = <<>> /\ applied = <<>>

TagInit ==
    /\ first \in Filenames
    /\ filename = first
    /\ tag = <<>>
    /\ tag_pc = "ready"
    /\ fname_out = <<>>
    /\ applied = <<>>

\* One call of add_tag_to_filename(filename, t).
CallAddTag ==
    /\ tag_pc = "ready"
    /\ \E t \in Tags :
         LET r == add_tag_to_filename(filename, t, today) IN
         /\ tag' = t
         /\ tag_pc' = r.kind
         /\ fname_out' = r.name
         /\ applied' = IF r.kind = "returned" THEN Append(applied, t) ELSE applied
    /\ UNCHANGED <<today, first, filename, metaVars, jobVars, coordVars>>

\* The caller tags the returned name again.
Retag ==
    /\ tag_pc = "returned"
    /\ Len(applied) < MaxCalls
    /\ filename' = fname_out
    /\ tag_pc' = "ready"
    /\ UNCHANGED <<today, first, tag, fname_out, applied, metaVars, jobVars, coordVars>>

\* Midnight passes between two calls.
TagDayPasses ==
    /\ tag_pc = "ready"
    /\ DayIndex(today) < Len(Days)
    /\ today' = Days[DayIndex(today) + 1]
    /\ UNCHANGED <<tagVars, metaVars, jobVars, coordVars>>

(***************************************************************************)
(* update_metadata                                                         *)
(***************************************************************************)
\* os.path.abspath(__file__)
ToolPath == "/ctsm/python/ctsm/site_and_regional/base_case.py"

\* lines 196-205; "history" "History_Log" is one literal, the two concatenated
del_attrs ==
    << "source_code", "SVN_url", "hostname", "history" \o "History_Log",
       "Logname", "Host", "Version", "Compiler_Optimized" >>

SetAttr(a, k, v) == [x \in (DOMAIN a) \cup {k} |-> IF x = k THEN v ELSE a[x]]

DelAttr(a, k) == [x \in (DOMAIN a) \ {k} |-> a[x]]

\* faulty variant: the loop stops after the first attribute it deletes
RECURSIVE DeleteLoop_Break(_, _)
DeleteLoop_Break(a, i) ==
    IF i > Len(del_attrs) THEN a
    ELSE IF del_attrs[i] \in DOMAIN a THEN DelAttr(a, del_attrs[i])
         ELSE DeleteLoop_Break(a, i + 1)

\* lines 208-211, from the i-th entry of del_attrs on
RECURSIVE DeleteLoop(_, _)
DeleteLoop(a, i) ==
    IF i > Len(del_attrs) THEN a
    ELSE DeleteLoop(IF del_attrs[i] \in DOMAIN a THEN DelAttr(a, del_attrs[i]) ELSE a, i + 1)

\* faulty variant: an attribute already present is kept
SetProvenance_KeepOld(a, d, u, s) ==
    LET put(m, k, v) == IF k \in DOMAIN m THEN m ELSE SetAttr(m, k, v) IN
    put(put(put(a, "Created_on", strftime_Ymd(d)), "Created_by", u),
        "Created_with", ToolPath \o " -- " \o s)

\* lines 191-193
SetProvenance(a, d, u, s) ==
    SetAttr(SetAttr(SetAttr(a, "Created_on", strftime_Ymd(d)), "Created_by", u),
            "Created_with", ToolPath \o " -- " \o s)

update_metadata(a, d, u, s) == DeleteLoop(SetProvenance(a, d, u, s), 1)

AttrNames ==
    {del_attrs[i] : i \in 1..Len(del_attrs)}
        \cup {"Created_on", "Created_by", "Created_with", "history", "History_Log", "title"}

Users == {"alice", "bob"}

Shas == <<"1a2b3c4", "9f8e7d6">>

ShaIndex(s) == CHOOSE i \in 1..Len(Shas) : Shas[i] = s

MetaIdle == attrs = <<>> /\ user = "" /\ sha = "" /\ hist = <<>>

MetaInit ==
    /\ \E S \in SUBSET AttrNames :
         /\ Cardinality(S) <= MaxAttrs
         /\ attrs = [k \in S |-> "old"]
    /\ user \in Users
    /\ sha = Shas[1]
    /\ hist = <<>>

\* One call of update_metadata(nc).
UpdateMetadata ==
    /\ Len(hist) < MaxRuns
    /\ attrs' = update_metadata(attrs, today, user, sha)
    /\ hist' = Append(hist, [day |-> today, user |-> user, sha |-> sha,
                             pre |-> attrs, post |-> attrs'])
    /\ UNCHANGED <<today, user, sha, tagVars, jobVars, coordVars>>

\* Midnight passes between two calls.
MetaDayPasses ==
    /\ Len(hist) < MaxRuns
    /\ DayIndex(today) < Len(Days)
    /\ today' = Days[DayIndex(today) + 1]
    /\ UNCHANGED <<tagVars, metaVars, jobVars, coordVars>>

\* The repository gets a new commit between two calls.
NewCommit ==
    /\ Len(hist) < MaxRuns
    /\ ShaIndex(sha) < Len(Shas)
    /\ sha' = Shas[ShaIndex(sha) + 1]
    /\ UNCHANGED <<today, attrs, user, hist, tagVars, jobVars, coordVars>>

(***************************************************************************)
(* gen_mksurfdata_jobscript_single.main                                    *)
(***************************************************************************)
\* int(s) raises ValueError unless s is a decimal numeral
IsNumeral(s) == Len(s) >= 1 /\ \A i \in 1..Len(s) : IsDigit(s[i])

\* int(s) of a decimal numeral
RECURSIVE int(_)
int(s) == IF s = <<>> THEN 0 ELSE 10 * int(SubSeq(s, 1, Len(s) - 1)) + DigitValue(s[Len(s)])

\* str(n) of a natural number, as an f-string renders it
RECURSIVE str(_)
str(n) == IF n < 10 THEN DigitChars[n + 1] ELSE str(n \div 10) \o DigitChars[(n % 10) + 1]

\* faulty variant: the ranks are added up
JobNp_Sum(a) == int(a.tasks_per_node) + int(a.number_of_nodes)

\* line 89
JobNp(a) == int(a.tasks_per_node) * int(a.number_of_nodes)

\* the k-th write of lines 80-87
HeaderChunk(a, k) ==
    CASE k = 1 -> "#!/bin/bash \n"
      [] k = 2 -> "#PBS -A " \o a.account \o " \n"
      [] k = 3 -> "#PBS -N mksurfdata \n"
      [] k = 4 -> "#PBS -j oe \n"
      [] k = 5 -> "#PBS -q regular \n"
      [] k = 6 -> "#PBS -l walltime=30:00 \n"
      [] k = 7 -> "#PBS -l select=" \o Str(a.number_of_nodes) \o ":ncpus=36:mpiprocs="
                    \o Str(a.tasks_per_node) \o " \n"
      [] k = 8 -> "\n"

HeaderWrites == 8

\* lines 91-92
LaunchChunk(a, n) ==
    "mpiexec_mpt -p \"%g:\" -np " \o str(n) \o " ./src/mksurfdata < " \o a.namelist_file
        \o " \n"

NumChars == {"0", "2", "4", "x"}

JobArgs ==
    [account : {"P93300606", "P1"},
     number_of_nodes : SeqsUpTo(NumChars, MaxDigits),
     tasks_per_node : SeqsUpTo(NumChars, MaxDigits),
     namelist_file : {"nl.txt"},
     jobscript_file : {"mksurfdata_jobscript_single"}]

JobInit ==
    /\ args \in JobArgs
    /\ job_pc = "start"
    /\ runfile \in {"", "stale text\n"}
    /\ runfile_state = "unopened"
    /\ nwritten = 0
    /\ np = 0
    /\ job_exc = "none"

\* what leaving the with block does to the file object, on every way out
WithExit == "closed"

\* line 78: open(jobscript_file, "w") truncates the file
JobOpen ==
    /\ job_pc = "start"
    /\ job_pc' = "in_with"
    /\ runfile' = ""
    /\ runfile_state' = "open"
    /\ UNCHANGED <<today, args, nwritten, np, job_exc, tagVars, metaVars, coordVars>>

\* line 78: open() raises, the path cannot be written
JobOpenFails ==
    /\ job_pc = "start"
    /\ job_pc' = "raised"
    /\ job_exc' = "OSError"
    /\ UNCHANGED <<today, args, runfile, runfile_state, nwritten, np, tagVars, metaVars,
                   coordVars>>

\* lines 80-87, one write() at a time
JobWriteHeader ==
    /\ job_pc = "in_with"
    /\ nwritten < HeaderWrites
    /\ runfile' = runfile \o HeaderChunk(args, nwritten + 1)
    /\ nwritten' = nwritten + 1
    /\ UNCHANGED <<today, args, job_pc, runfile_state, np, job_exc, tagVars, metaVars,
                   coordVars>>

\* a write() raises; the with block releases the file and the error leaves main
JobWriteFails ==
    /\ \/ job_pc = "in_with" /\ nwritten < HeaderWrites
       \/ job_pc = "np_done"
    /\ job_pc' = "raised"
    /\ job_exc' = "OSError"
    /\ runfile_state' = WithExit
    /\ UNCHANGED <<today, args, runfile, nwritten, np, tagVars, metaVars, coordVars>>

\* line 89: int() of both arguments, a ValueError when one is no numeral
JobComputeNp ==
    /\ job_pc = "in_with"
    /\ nwritten = HeaderWrites
    /\ IF IsNumeral(args.tasks_per_node) /\ IsNumeral(args.number_of_nodes)
       THEN /\ np' = JobNp(args)
            /\ job_pc' = "np_done"
            /\ UNCHANGED <<runfile_state, job_exc>>
       ELSE /\ job_pc' = "raised"
            /\ job_exc' = "ValueError"
            /\ runfile_state' = WithExit
            /\ UNCHANGED np
    /\ UNCHANGED <<today, args, runfile, nwritten, tagVars, metaVars, coordVars>>

\* lines 91-92
JobWriteLaunch ==
    /\ job_pc = "np_done"
    /\ runfile' = runfile \o LaunchChunk(args, np)
    /\ nwritten' = nwritten + 1
    /\ job_pc' = "launch_written"
    /\ UNCHANGED <<today, args, runfile_state, np, job_exc, tagVars, metaVars, coordVars>>

\* the end of the with block
JobLeaveWith ==
    /\ job_pc = "launch_written"
    /\ runfile_state' = WithExit
    /\ job_pc' = "after_with"
    /\ UNCHANGED <<today, args, runfile, nwritten, np, job_exc, tagVars, metaVars, coordVars>>

\* lines 94-95: the confirmation message and sys.exit(0)
JobExit ==
    /\ job_pc = "after_with"
    /\ job_pc' = "exited"
    /\ UNCHANGED <<today, args, runfile, runfile_state, nwritten, np, job_exc, tagVars,
                   metaVars, coordVars>>

JobIdle ==
    /\ args = <<>> /\ job_pc = "idle" /\ runfile = "" /\ runfile_state = "unopened"
    /\ nwritten = 0 /\ np = 0 /\ job_exc = "none"

(***************************************************************************)
(* create_1d_coord                                                         *)
(*                                                                         *)
(* A dataset is [vars, coords]: vars maps a variable's name to             *)
(* [dims, data] with data[j][i] for a 2D variable of dims <<y, x>>, and to  *)
(* [dims, axis] with axis[i] for a 1D one; coords is the set of names that *)
(* have the coordinate role.                                               *)
(***************************************************************************)
Override(f, g) == [k \in (DOMAIN f) \cup (DOMAIN g) |-> IF k \in DOMAIN g THEN g[k] ELSE f[k]]

\* faulty variant: the longitude axis is read down the first column
lon0_FirstColumn(v) == [j \in 1..Len(v.data) |-> v.data[j][1]]

\* line 118: f_in[lon_varname][0, :]
lon0_of(v) == v.data[1]

\* line 119: f_in[lat_varname][:, 0]
lat0_of(v) == [j \in 1..Len(v.data) |-> v.data[j][1]]

\* lines 120-121: xr.DataArray(values, name=..., dims=dim, coords={dim: values})
DataArray(values, dim) == [dims |-> <<dim>>, axis |-> values, coords |-> {dim}]

\* line 123: Dataset.assign of two DataArrays: each becomes a data variable,
\* and the coordinate it carries an index coordinate of the new dataset
assign(ds, name1, da1, name2, da2) ==
    LET var(da) == [dims |-> da.dims, axis |-> da.axis]
        new == [k \in {name1, name2, da1.dims[1], da2.dims[1]} |->
                    CASE k = da1.dims[1] -> var(da1)
                      [] k = da2.dims[1] -> var(da2)
                      [] k = name1 -> var(da1)
                      [] OTHER -> var(da2)]
    IN [vars |-> Override(ds.vars, new),
        coords |-> (ds.coords \ {name1, name2}) \cup da1.coords \cup da2.coords]

\* Dataset.reset_coords(names): a new dataset in which names are data variables
reset_coords(ds, names) == [ds EXCEPT !.coords = @ \ names]

\* lines 123-127: the dataset the function returns. The dataset that
\* reset_coords returns on line 125 is not bound to any name.
f_out_of(f_in, a) ==
    LET lon == DataArray(lon0_of(f_in.vars[a.lon_varname]), a.x_dim)
        lat == DataArray(lat0_of(f_in.vars[a.lat_varname]), a.y_dim)
        assigned == assign(f_in, "lon", lon, "lat", lat)
        dropped == reset_coords(assigned, {a.lon_varname, a.lat_varname})
    IN assigned

\* The outcome of create_1d_coord(filename, ...): the exception that leaves
\* it (and whether open_dataset had returned a handle by then), or the
\* dataset returned after f_in.close().
create_1d_coord(d, a) ==
    IF ~d.exists
    THEN [pc |-> "raised", exc |-> "FileNotFoundError", handle |-> "unopened", out |-> <<>>]
    ELSE IF a.lon_varname \notin DOMAIN d.ds.vars
    THEN [pc |-> "raised", exc |-> "KeyError", handle |-> "open", out |-> <<>>]
    ELSE IF Len(d.ds.vars[a.lon_varname].dims) # 2
    THEN [pc |-> "raised", exc |-> "IndexError", handle |-> "open", out |-> <<>>]
    ELSE IF a.lat_varname \notin DOMAIN d.ds.vars
    THEN [pc |-> "raised", exc |-> "KeyError", handle |-> "open", out |-> <<>>]
    ELSE IF Len(d.ds.vars[a.lat_varname].dims) # 2
    THEN [pc |-> "raised", exc |-> "IndexError", handle |-> "open", out |-> <<>>]
    ELSE [pc |-> "returned", exc |-> "none", handle |-> "closed", out |-> f_out_of(d.ds, a)]

LonVals == {10, 20}

LatVals == {-5, 5}

\* a field that is constant along one dimension, or that but for one cell
Grids(ny, nx, vals, alongRows) ==
    LET n == IF alongRows THEN nx ELSE ny
        regular(axis) == [j \in 1..ny |-> [i \in 1..nx |-> IF alongRows THEN axis[i] ELSE axis[j]]]
    IN {regular(axis) : axis \in [1..n -> vals]}
       \cup {[regular(axis) EXCEPT ![c[1]][c[2]] = CHOOSE v \in vals : v # @] :
                axis \in [1..n -> vals], c \in (1..ny) \X (1..nx)}

CoordArgs == [lon_varname |-> "xc", lat_varname |-> "yc", x_dim |-> "ni", y_dim |-> "nj"]

\* a domain-like file: 2D xc and yc over <<nj, ni>>, and a mask
FullDataset(ny, nx, lon2d, lat2d, cs) ==
    [vars |-> [k \in {"xc", "yc", "mask"} |->
                 CASE k = "xc" -> [dims |-> <<"nj", "ni">>, data |-> lon2d]
                   [] k = "yc" -> [dims |-> <<"nj", "ni">>, data |-> lat2d]
                   [] OTHER -> [dims |-> <<"nj", "ni">>,
                                data |-> [j \in 1..ny |-> [i \in 1..nx |-> 1]]]],
     coords |-> cs]

\* the same file without variable k
Without(ds, k) ==
    [vars |-> [n \in (DOMAIN ds.vars) \ {k} |-> ds.vars[n]], coords |-> ds.coords \ {k}]

\* the same file with variable k one-dimensional
Flat(ds, k) == [ds EXCEPT !.vars[k] = [dims |-> <<"ni">>, axis |-> @.data[1]]]

NoDataset == [vars |-> <<>>, coords |-> {}]

\* The file create_1d_coord is given: a domain-like file, one in which xc or
\* yc is missing or one-dimensional, or no file at all.
CoordInit ==
    /\ \E ny \in 1..MaxN, nx \in 1..MaxN, cs \in SUBSET {"xc", "yc"} :
         \E lon2d \in Grids(ny, nx, LonVals, TRUE), lat2d \in Grids(ny, nx, LatVals, FALSE) :
            LET ds == FullDataset(ny, nx, lon2d, lat2d, cs) IN
            \/ disk = [exists |-> TRUE, ds |-> ds]
            \/ /\ ny = 1 /\ lon2d[1][1] = 10 /\ lat2d[1][1] = 5
               /\ \/ disk = [exists |-> FALSE, ds |-> NoDataset]
                  \/ \E k \in {"xc", "yc"} :
                        \/ disk = [exists |-> TRUE, ds |-> Without(ds, k)]
                        \/ disk = [exists |-> TRUE, ds |-> Flat(ds, k)]
    /\ cargs = CoordArgs
    /\ coord_pc = "start"
    /\ f_in_state = "unopened"
    /\ f_out = <<>>
    /\ coord_exc = "none"

\* One call of create_1d_coord(filename, "xc", "yc", "ni", "nj").
Create1dCoord ==
    /\ coord_pc = "start"
    /\ LET r == create_1d_coord(disk, cargs) IN
         /\ coord_pc' = r.pc
         /\ coord_exc' = r.exc
         /\ f_in_state' = r.handle
         /\ f_out' = r.out
    /\ UNCHANGED <<today, disk, cargs, tagVars, metaVars, jobVars>>

CoordIdle ==
    /\ disk = <<>> /\ cargs = <<>> /\ coord_pc = "idle" /\ f_in_state = "unopened"
    /\ f_out = <<>> /\ coord_exc = "none"

(***************************************************************************)
(* Specifications.                                                         *)
(***************************************************************************)
InitTag == today \in {Days[i] : i \in 1..Len(Days)} /\ TagInit /\ MetaIdle /\ JobIdle /\ CoordIdle

NextTag == CallAddTag \/ Retag \/ TagDayPasses

SpecTag == InitTag /\ [][NextTag]_vars

InitMeta == today = Days[1] /\ TagIdle /\ MetaInit /\ JobIdle /\ CoordIdle

NextMeta == UpdateMetadata \/ MetaDayPasses \/ NewCommit

SpecMeta == InitMeta /\ [][NextMeta]_vars

InitJob == today = Days[1] /\ TagIdle /\ MetaIdle /\ JobInit /\ CoordIdle

NextJob ==
    \/ JobOpen \/ JobOpenFails \/ JobWriteHeader \/ JobWriteFails \/ JobComputeNp
    \/ JobWriteLaunch \/ JobLeaveWith \/ JobExit

SpecJob == InitJob /\ [][NextJob]_vars

InitCoord == today = Days[1] /\ TagIdle /\ MetaIdle /\ JobIdle /\ CoordInit

NextCoord == Create1dCoord

SpecCoord == InitCoord /\ [][NextCoord]_vars

\* the two operations that open a file
InitFiles == InitCoord \/ InitJob

NextFiles == NextCoord \/ NextJob

SpecFiles == InitFiles /\ [][NextFiles]_vars

(***************************************************************************)
(* Properties of add_tag_to_filename.                                      *)
(***************************************************************************)
TagCallDone == tag_pc \in {"returned", "aborted", "raised"}

\* b ends in [._]cYYMMDD.nc (withC) or in [._]YYMMDD.nc
HasDatedEnding(b, withC) ==
    LET n == IF withC THEN 11 ELSE 10
        at(k) == b[Len(b) - k + 1]          \* the k-th character from the end
    IN /\ Len(b) >= n
       /\ at(n) \in {".", "_"}
       /\ withC => at(10) = "c"
       /\ \A k \in 4..9 : IsDigit(at(k))
       /\ at(3) = "." /\ at(2) = "n" /\ at(1) = "c"

\* the base name up to, not including, the separator before the date code
DatedPrefix(b) ==
    IF HasDatedEnding(b, TRUE) THEN SubSeq(b, 1, Len(b) - 11) ELSE SubSeq(b, 1, Len(b) - 10)

\* C1: for a file name whose base name ends in [._]cYYMMDD.nc or [._]YYMMDD.nc
\* and any tag, the call returns <prefix>_<tag>_c<today as YYMMDD>.nc, where
\* <prefix> is the base name up to the separator.
C1_TaggedName ==
    (TagCallDone /\ (HasDatedEnding(basename(filename), TRUE)
                     \/ HasDatedEnding(basename(filename), FALSE)))
    => /\ tag_pc = "returned"
       /\ fname_out = DatedPrefix(basename(filename)) \o <<"_">> \o tag \o <<"_", "c">>
                        \o strftime_ymd(today) \o <<".", "n", "c">>

C1_Witness ==
    /\ filename = <<"/", "c", ".", "c", "9", "9", "1", "2", "3", "1", ".", "n", "c">>
    /\ tag = <<"v", "2">>
    /\ tag_pc = "returned"
    /\ fname_out = <<"c", "_", "v", "2", "_", "c", "2", "6", "1", "1", "0", "3", ".", "n", "c">>

\* The boundary check: the boundary is offset -10 from the end of the base
\* name, one further left when the character there is "c", and the character
\* at the boundary is "." or "_".
BoundaryCheckPasses(b) ==
    LET bd == IF Len(b) >= 10 /\ b[Len(b) - 9] = "c" THEN 11 ELSE 10
    IN Len(b) >= bd /\ b[Len(b) - bd + 1] \in {".", "_"}

\* C2: the call terminates the process for every file name that fails the
\* boundary check and returns a name for every file name that passes it.
C2_AbortIffCheckFails ==
    TagCallDone => /\ BoundaryCheckPasses(basename(filename)) => tag_pc = "returned"
                   /\ ~BoundaryCheckPasses(basename(filename)) => tag_pc = "aborted"

\* C3: a call ends by returning a name or by terminating the process; it
\* never raises an exception the caller can catch.
C3_NeverRaises == tag_pc # "raised"

NoSlash(t) == \A i \in 1..Len(t) : t[i] # "/"

RECURSIVE JoinTags(_)
JoinTags(ts) == IF ts = <<>> THEN <<>> ELSE <<"_">> \o ts[1] \o JoinTags(Tail(ts))

\* the prefix the first, accepted, call kept of the name the caller started from
FirstPrefix ==
    LET b == basename(first)
    IN SubSeq(b, 1, Len(b) - (IF b[Len(b) - 9] = "c" THEN 11 ELSE 10))

\* C10: once a call has returned a name, tagging the returned name again with
\* tags free of "/" never terminates the process (nor raises), and returns
\* <prefix>_<t1>_..._<tn>_c<today>.nc: the tags in call order, one date code.
C10_Retagging ==
    (Len(applied) >= 1 /\ NoSlash(tag) /\ \A i \in 1..Len(applied) : NoSlash(applied[i]))
    => /\ tag_pc \notin {"aborted", "raised"}
       /\ tag_pc = "returned"
            => fname_out = FirstPrefix \o JoinTags(applied) \o <<"_", "c">>
                             \o strftime_ymd(today) \o <<".", "n", "c">>

C10_Witness ==
    /\ first = <<"a", "_", "2", "1", "0", "1", "0", "1", ".", "n", "c">>
    /\ applied = << <<"h">>, <<"v", "2">> >>
    /\ tag_pc = "returned"
    /\ today = Days[2]
    /\ fname_out = <<"a", "_", "h", "_", "v", "2", "_", "c", "2", "7", "0", "1", "1", "2",
                     ".", "n", "c">>

(***************************************************************************)
(* Properties of update_metadata.                                          *)
(***************************************************************************)
Provenance == {"Created_on", "Created_by", "Created_with"}

Denylist == {"source_code", "SVN_url", "hostname", "historyHistory_Log", "Logname", "Host",
             "Version", "Compiler_Optimized"}

\* C4: after update_metadata the mapping is exactly Created_on = the date as
\* YYYY-MM-DD, Created_by = the user, Created_with = "<tool path> -- <hash>",
\* the eight denylisted keys absent, every other attribute (history and
\* History_Log among them) present with its value unchanged.
C4_MetadataAfter ==
    \A i \in 1..Len(hist) :
        LET h == hist[i] IN
        /\ DOMAIN h.post = ((DOMAIN h.pre) \cup Provenance) \ Denylist
        /\ h.post["Created_on"] = strftime_Ymd(h.day)
        /\ h.post["Created_by"] = h.user
        /\ h.post["Created_with"] = ToolPath \o " -- " \o h.sha
        /\ \A k \in (DOMAIN h.pre) \ (Provenance \cup Denylist) : h.post[k] = h.pre[k]

C4_Witness ==
    /\ Len(hist) >= 1
    /\ DOMAIN hist[1].pre = {"Created_on", "History_Log", "hostname"}
    /\ hist[1].post = [k \in Provenance \cup {"History_Log"} |->
                         CASE k = "Created_on" -> "2026-11-03"
                           [] k = "Created_by" -> "alice"
                           [] k = "Created_with" ->
                                "/ctsm/python/ctsm/site_and_regional/base_case.py -- 1a2b3c4"
                           [] OTHER -> "old"]

SameEnv(g, h) == g.day = h.day /\ g.user = h.user /\ g.sha = h.sha

\* C5: with the date, user and revision hash unchanged, a second
\* update_metadata leaves the attributes as the first left them.
C5_Idempotent ==
    \A i \in 1..(Len(hist) - 1) :
        SameEnv(hist[i], hist[i + 1]) => hist[i + 1].post = hist[i].post

C5_Witness ==
    /\ Len(hist) >= 2
    /\ SameEnv(hist[1], hist[2])
    /\ DOMAIN hist[1].pre = {"Host", "Version", "history"}
    /\ DOMAIN hist[2].post = Provenance \cup {"history"}

(***************************************************************************)
(* Properties of the job script.                                           *)
(***************************************************************************)
\* C6 as stated: the script written is the documented text, no other
\* character on any line, <n> and <t> the integer arguments, <n*t> their product.
C6_ScriptAsDocumented ==
    job_pc = "exited" =>
        runfile = "#!/bin/bash\n"
                  \o "#PBS -A " \o args.account \o "\n"
                  \o "#PBS -N mksurfdata\n"
                  \o "#PBS -j oe\n"
                  \o "#PBS -q regular\n"
                  \o "#PBS -l walltime=30:00\n"
                  \o "#PBS -l select=" \o str(int(args.number_of_nodes)) \o ":ncpus=36:mpiprocs="
                  \o str(int(args.tasks_per_node)) \o "\n"
                  \o "\n"
                  \o "mpiexec_mpt -p \"%g:\" -np "
                  \o str(int(args.number_of_nodes) * int(args.tasks_per_node))
                  \o " ./src/mksurfdata < " \o args.namelist_file \o "\n"

\* C6 amended: the script written is the documented text with one space
\* before the line break of each of its eight non-blank lines, <n> and <t>
\* on the select line being the arguments' text as given and <n*t> the
\* decimal product of their integer values.
C6_ScriptWithTrailingSpaces ==
    job_pc = "exited" =>
        runfile = "#!/bin/bash \n"
                  \o "#PBS -A " \o args.account \o " \n"
                  \o "#PBS -N mksurfdata \n"
                  \o "#PBS -j oe \n"
                  \o "#PBS -q regular \n"
                  \o "#PBS -l walltime=30:00 \n"
                  \o "#PBS -l select=" \o Str(args.number_of_nodes) \o ":ncpus=36:mpiprocs="
                  \o Str(args.tasks_per_node) \o " \n"
                  \o "\n"
                  \o "mpiexec_mpt -p \"%g:\" -np "
                  \o str(int(args.number_of_nodes) * int(args.tasks_per_node))
                  \o " ./src/mksurfdata < " \o args.namelist_file \o " \n"

C6_Witness ==
    /\ job_pc = "exited"
    /\ args.account = "P1"
    /\ args.number_of_nodes = <<"2">>
    /\ args.tasks_per_node = <<"4">>
    /\ runfile = "#!/bin/bash \n#PBS -A P1 \n#PBS -N mksurfdata \n#PBS -j oe \n"
                 \o "#PBS -q regular \n#PBS -l walltime=30:00 \n"
                 \o "#PBS -l select=2:ncpus=36:mpiprocs=4 \n\n"
                 \o "mpiexec_mpt -p \"%g:\" -np 8 ./src/mksurfdata < nl.txt \n"

(***************************************************************************)
(* Properties of create_1d_coord.                                          *)
(***************************************************************************)
SrcLon == disk.ds.vars[cargs.lon_varname].data

SrcLat == disk.ds.vars[cargs.lat_varname].data

GridPoints == {p \in (1..Len(SrcLon)) \X (1..Len(SrcLon[1])) : TRUE}

\* longitude constant along rows (down each column), latitude constant
\* along columns (across each row)
RegularGrid ==
    \A p \in GridPoints : SrcLon[p[1]][p[2]] = SrcLon[1][p[2]] /\ SrcLat[p[1]][p[2]] = SrcLat[p[1]][1]

\* the grid points ds.sel({xd: xv, yd: yv}) selects, through the index
\* coordinates of dimensions xd and yd
sel(ds, xd, xv, yd, yv) ==
    IF {xd, yd} \subseteq ds.coords
    THEN {p \in GridPoints : ds.vars[yd].axis[p[1]] = yv /\ ds.vars[xd].axis[p[2]] = xv}
    ELSE {}

C8_FieldsDemoted ==
    coord_pc = "returned" =>
        \A k \in {cargs.lon_varname, cargs.lat_varname} :
            /\ k \in DOMAIN f_out.vars
            /\ f_out.vars[k] = disk.ds.vars[k]
            /\ k \in disk.ds.coords => k \notin f_out.coords

\* C9: no operation exits, by returning or by an error that propagates, with
\* a file handle it opened still open.
C9_HandlesClosedOnExit ==
    /\ coord_pc \in {"returned", "raised"} => f_in_state # "open"
    /\ job_pc \in {"exited", "raised"} => runfile_state # "open"

====
